---- MODULE Spec2Model ----
(***************************************************************************)
(* Model of the file content extractor (src/src/extractors): the           *)
(* dispatcher _FileContentExtractor.extract_file_content, the three format *)
(* processors (TXT, DOCX, PDF with its probe / native / OCR strategy), the *)
(* result schemas and the response assembly.                               *)
(*                                                                         *)
(* Texts are sequences of code points.  Reasons and exception messages are *)
(* strings.  The empty text is << >>, the empty reason is "".              *)
(***************************************************************************)
EXTENDS Integers, Sequences, FiniteSets, TLC

\* ------------------------------------------------------------------ bounds

\* Longest byte content of an uploaded file.
MaxBytes == 3
\* Longest text of one PDF page, one DOCX paragraph or one OCR line.
MaxLen == 1
\* Most pages of a PDF, paragraphs of a DOCX, lines of an OCR answer.
MaxUnits == 2
\* Most requests in flight at once.
MaxTasks == 2

\* ------------------------------------------------------------ value spaces

\* Python's None, for an argument the caller left out.
None == "<None>"

\* The bytes uploaded files are built from: ' ', 'a', the UTF-8 lead byte
\* 0xC2 and the continuation byte 0xA0 (0xC2 0xA0 encodes U+00A0).
ByteAlphabet == {32, 97, 194, 160}

\* The code points page, paragraph and line texts are built from.
Chars == {32, 97}

SeqsUpTo(S, n) == UNION {[1..k -> S] : k \in 0..n}

ByteSeqs == SeqsUpTo(ByteAlphabet, MaxBytes)

UnitTexts == SeqsUpTo(Chars, MaxLen)

\* What fitz makes of a file: it cannot open it, or a sequence of pages,
\* each with a text layer or unreadable (get_text / load_page raises).
BadPage == [ok |-> FALSE, text |-> << >>]

GoodPage(t) == [ok |-> TRUE, text |-> t]

Pages == {BadPage} \cup {GoodPage(t) : t \in UnitTexts}

Unreadable == [ok |-> FALSE, units |-> << >>]

Readable(us) == [ok |-> TRUE, units |-> us]

PdfReadings == {Readable(ps) : ps \in SeqsUpTo(Pages, MaxUnits)}

\* What python-docx makes of a file: it cannot open it, or the paragraphs.
DocxReadings == {Readable(ps) : ps \in SeqsUpTo(UnitTexts, MaxUnits)}

\* An uploaded file: its bytes, and what the two parsers make of them.  A
\* short byte string over ByteAlphabet is neither a PDF nor a DOCX package;
\* a PDF or DOCX file is stood for by one fixed non-empty byte string.
ContainerBytes == <<97>>

PlainFiles == {[bytes |-> b, pdf |-> Unreadable, docx |-> Unreadable] : b \in ByteSeqs}

PdfFiles == {[bytes |-> ContainerBytes, pdf |-> r, docx |-> Unreadable] : r \in PdfReadings}

DocxFiles == {[bytes |-> ContainerBytes, pdf |-> Unreadable, docx |-> r] : r \in DocxReadings}

Files == PlainFiles \cup PdfFiles \cup DocxFiles

\* What the OCR service answers: the client raises, or the recognised lines
\* in reading order (for page in result.pages: for line in page.lines).
OcrAnswers == {Unreadable} \cup {Readable(ls) : ls \in SeqsUpTo(UnitTexts, MaxUnits)}

PDF == "application/pdf"

DOCX == "application/vnd.openxmlformats-officedocument.wordprocessingml.document"

TXT == "text/plain"

ContentTypes == {PDF, DOCX, TXT, "application/json", None}

\* A filename, the empty filename of a nameless upload, or none at all.
Filenames == {"upload.bin", "", None}

\* file_bytes is handed over as raw bytes or as an io.BytesIO stream.
Forms == {"bytes", "stream"}

\* ------------------------------------------------------- Python semantics

\* The outcome of evaluating a Python expression: a value, or a raised
\* exception, which is known by its message (str(e)).
Return(v) == [ok |-> TRUE, val |-> v, exc |-> ""]

Raise(msg) == [ok |-> FALSE, val |-> << >>, exc |-> msg]

\* bool(file_bytes): bytes are truthy when non-empty; an io.BytesIO defines
\* neither __bool__ nor __len__ and is always truthy.
Truthy(file_bytes) == file_bytes.form = "stream" \/ Len(file_bytes.file.bytes) > 0

\* str.isspace for the code points below U+0800.
IsSpace(c) == c \in (9..13) \cup (28..32) \cup {133, 160}

\* str.strip()
RECURSIVE LStrip(_)
LStrip(t) == IF t # << >> /\ IsSpace(Head(t)) THEN LStrip(Tail(t)) ELSE t

RECURSIVE RStrip(_)
RStrip(t) ==
    IF t # << >> /\ IsSpace(t[Len(t)]) THEN RStrip(SubSeq(t, 1, Len(t) - 1)) ELSE t

Strip(t) == RStrip(LStrip(t))

\* sep.join(parts)
RECURSIVE Join(_, _)
Join(sep, parts) ==
    IF parts = << >> THEN << >>
    ELSE IF Len(parts) = 1 THEN parts[1]
    ELSE parts[1] \o sep \o Join(sep, Tail(parts))

Space == <<32>>

\* bytes.decode("utf-8"), strict, for one- and two-byte sequences (every
\* byte of ByteAlphabet is below 0xE0): UnicodeDecodeError on a lone
\* continuation byte, a truncated sequence or an overlong lead byte.
RECURSIVE Utf8Decode(_)
Utf8Decode(b) ==
    IF b = << >> THEN Return(<< >>)
    ELSE IF b[1] < 128
    THEN LET rest == Utf8Decode(Tail(b))
         IN  IF rest.ok THEN Return(<<b[1]>> \o rest.val) ELSE rest
    ELSE IF b[1] \in 194..223 /\ Len(b) >= 2 /\ b[2] \in 128..191
    THEN LET rest == Utf8Decode(SubSeq(b, 3, Len(b)))
             cp == (b[1] - 192) * 64 + (b[2] - 128)
         IN  IF rest.ok THEN Return(<<cp>> \o rest.val) ELSE rest
    ELSE Raise("UnicodeDecodeError")

\* io.BytesIO.read() at position pos.
StreamRead(data, pos) == SubSeq(data, pos + 1, Len(data))

\* ---------------------------------------------------------------- schemas

\* A keyword argument: left out, or given with a value.
Absent == << >>

Given(v) == <<v>>

\* "not text" / "not reason" on values.get(...): None or the empty string.
NoText(arg) == Len(arg) = 0 \/ arg[1] = << >>

NoReason(arg) == Len(arg) = 0 \/ arg[1] = ""

\* The fields of a ProcessedFileSchema once the validator has let the
\* arguments through: a field left out takes its default.
ProcessedFields(processed, http_status, reason, text) ==
    [processed |-> processed,
     http_status |-> IF Len(http_status) = 0 THEN 200 ELSE http_status[1],
     reason |-> IF Len(reason) = 0 THEN "" ELSE reason[1],
     text |-> IF Len(text) = 0 THEN << >> ELSE text[1]]

\* Mutant of ProcessedFileSchema: the validator lets a processed result
\* without text through.
ProcessedFileSchemaAnyText(processed, http_status, reason, text) ==
    IF ~processed /\ NoReason(reason)
    THEN Raise("reason field is required when processing fails")
    ELSE Return(ProcessedFields(processed, http_status, reason, text))

\* Mutant of ProcessedFileSchema: the validator lets a failed result
\* without reason through.
ProcessedFileSchemaAnyReason(processed, http_status, reason, text) ==
    IF processed /\ NoText(text)
    THEN Raise("text field is required when processing is successful")
    ELSE Return(ProcessedFields(processed, http_status, reason, text))

\* ProcessedFileSchema(...) with check_processed_dependencies, the "before"
\* validator: it raises unless text is given when processed and reason is
\* given when not.
ProcessedFileSchema(processed, http_status, reason, text) ==
    IF processed /\ NoText(text)
    THEN Raise("text field is required when processing is successful")
    ELSE IF ~processed /\ NoReason(reason)
    THEN Raise("reason field is required when processing fails")
    ELSE Return(ProcessedFields(processed, http_status, reason, text))

\* FileContentExtractSchema(success, http_status, reason,
\* file=FileInfoSchema(filename, content_type, file_bytes, content)):
\* filename and content_type are declared str, and None fails validation.
FileContentExtractSchema(success, http_status, reason, filename, content_type, file_bytes, content) ==
    IF filename = None \/ content_type = None
    THEN Raise("validation error for FileInfoSchema")
    ELSE Return([success |-> success,
                 http_status |-> http_status,
                 reason |-> reason,
                 file |-> [filename |-> filename,
                           content_type |-> content_type,
                           file_bytes |-> file_bytes,
                           content |-> content]])

\* _FileContentExtractor._build_response: result is the text on success and
\* the reason otherwise.
_build_response(success, result, filename, file_bytes, content_type, http_status) ==
    FileContentExtractSchema(success, http_status,
                             IF success THEN "" ELSE result,
                             filename, content_type, file_bytes,
                             IF success THEN result ELSE << >>)

\* responses.schemas.builder_file_content_extraction_response, as the
\* router calls it on the outcome: no file part unless filename and
\* content_type are both truthy.
builder_file_content_extraction_response(success, reason, filename, content_type, content) ==
    [success |-> success,
     reason |-> IF ~success THEN reason ELSE "",
     file |-> IF filename # "" /\ content_type # ""
              THEN <<[filename |-> filename,
                      content_type |-> content_type,
                      content |-> IF success THEN content ELSE << >>]>>
              ELSE << >>]

\* The reasons the code reports.
MissedFileBytes == "Missed file bytes"

UnsupportedFileType == "Unsupported file type"

FailedToExtract == "Failed to extract text from the file"

UnexpectedError == "Unexpected error during file processing"

CouldNotExtract == "Could not extract text or file is empty."

CouldNotExtractOcr == "Could not extract text via OCR or file is empty."

FailedToDecode == "Failed to decode the TXT file."

\* ------------------------------------------------------------- processors

\* A file_bytes argument: raw bytes or an io.BytesIO over the file's bytes.
FileBytes(form, file) == [form |-> form, file |-> file]

\* Mutant of _use_base_txt_text_extraction: blank text is not checked for.
_use_base_txt_text_extraction_noblank(file_bytes) ==
    LET text == Utf8Decode(file_bytes.file.bytes)
    IN  IF ~text.ok THEN <<FailedToDecode, FALSE>>
        ELSE <<text.val, TRUE>>

\* TXTProcessor._use_base_txt_text_extraction: (text, True), or (reason,
\* False) when the bytes do not decode or the text is blank.  _decode takes
\* getvalue() of a stream, whatever its position, or the raw bytes.
_use_base_txt_text_extraction(file_bytes) ==
    LET text == Utf8Decode(file_bytes.file.bytes)
    IN  IF ~text.ok THEN <<FailedToDecode, FALSE>>
        ELSE IF Strip(text.val) = << >> THEN <<CouldNotExtract, FALSE>>
        ELSE <<text.val, TRUE>>

\* TXTProcessor.process_txt_bytes
process_txt_bytes(file_bytes) ==
    IF ~Truthy(file_bytes)
    THEN ProcessedFileSchema(FALSE, Absent, Given(MissedFileBytes), Absent)
    ELSE LET extracted == _use_base_txt_text_extraction(file_bytes)
         IN  IF ~extracted[2]
             THEN ProcessedFileSchema(extracted[2], Given(422), Given(extracted[1]), Absent)
             ELSE ProcessedFileSchema(extracted[2], Given(201), Absent, Given(extracted[1]))

\* Mutant of _use_base_docx_text_extraction: the paragraphs are joined
\* without a separator.
_use_base_docx_text_extraction_nosep(document) ==
    LET paragraphs_text == Join(<< >>, document.units)
    IN  IF Strip(paragraphs_text) = << >> THEN <<CouldNotExtract, FALSE>>
        ELSE <<paragraphs_text, TRUE>>

\* DocxProcessor._use_base_docx_text_extraction
_use_base_docx_text_extraction(document) ==
    LET paragraphs_text == Join(Space, document.units)
    IN  IF Strip(paragraphs_text) = << >> THEN <<CouldNotExtract, FALSE>>
        ELSE <<paragraphs_text, TRUE>>

\* DocxProcessor.process_docx_bytes: Document(file_bytes) is outside any
\* try and raises on a file python-docx cannot open.
process_docx_bytes(file_bytes) ==
    IF ~Truthy(file_bytes)
    THEN ProcessedFileSchema(FALSE, Absent, Given(MissedFileBytes), Absent)
    ELSE IF file_bytes.form # "stream" \/ ~file_bytes.file.docx.ok
    THEN Raise("Package not found")
    ELSE LET extracted == _use_base_docx_text_extraction(file_bytes.file.docx)
         IN  IF ~extracted[2]
             THEN ProcessedFileSchema(extracted[2], Absent, Given(FailedToExtract), Absent)
             ELSE ProcessedFileSchema(extracted[2], Absent, Absent, Given(extracted[1]))

\* extract_first_page_text_from_pdf_bytes (the probe): fitz reads the whole
\* stream (getvalue) or the raw bytes; it raises on a file it cannot open
\* and on an unreadable first page.
extract_first_page_text_from_pdf_bytes(file_bytes) ==
    LET doc == file_bytes.file.pdf
    IN  IF ~doc.ok THEN Raise("Failed to open stream")
        ELSE IF Len(doc.units) < 1 THEN Return(<< >>)
        ELSE IF ~doc.units[1].ok THEN Raise("page not in document")
        ELSE Return(Strip(doc.units[1].text))

\* pages_text after the loop "pages_text += f' {text}'".
RECURSIVE PagesText(_)
PagesText(pages) ==
    IF pages = << >> THEN << >> ELSE Space \o pages[1].text \o PagesText(Tail(pages))

\* PDFProcessor._use_base_pdf_text_extraction: fitz opens file_bytes.read(),
\* the bytes from the stream's position on; every exception gives ("", False).
_use_base_pdf_text_extraction(file_bytes, pos) ==
    LET whole == file_bytes.form = "stream"
                 /\ StreamRead(file_bytes.file.bytes, pos) = file_bytes.file.bytes
        doc == file_bytes.file.pdf
    IN  IF ~whole \/ ~doc.ok \/ (\E i \in 1..Len(doc.units) : ~doc.units[i].ok)
        THEN <<"", FALSE>>
        ELSE IF Strip(PagesText(doc.units)) = << >> THEN <<CouldNotExtract, FALSE>>
        ELSE <<PagesText(doc.units), TRUE>>

\* Mutant of extract_text_from_pdf_bytes: the lines are joined without a
\* separator.
extract_text_from_pdf_bytes_nosep(file_bytes, answer) ==
    IF file_bytes.form # "stream" \/ ~answer.ok THEN << >>
    ELSE Join(<< >>, answer.units)

\* azure.handlers.extract_text_from_pdf_bytes (imported by the mixin as
\* extract_text_file_bytes): the lines joined with spaces; every exception
\* (seek on raw bytes, any client error) gives "".
extract_text_from_pdf_bytes(file_bytes, answer) ==
    IF file_bytes.form # "stream" \/ ~answer.ok THEN << >>
    ELSE Join(Space, answer.units)

\* ProcessorMixin._use_ocr_text_extraction
_use_ocr_text_extraction(file_bytes, answer) ==
    LET ocr_extracted_text == extract_text_from_pdf_bytes(file_bytes, answer)
    IN  IF ocr_extracted_text # << >> /\ ocr_extracted_text = Space
        THEN <<CouldNotExtractOcr, FALSE>>
        ELSE <<ocr_extracted_text, TRUE>>

\* Mutant of NoFirstPageText: the OCR branch whatever the probe found.
AlwaysOcr(text) == TRUE

\* PDFProcessor.process_pdf_bytes, "if first_page_text: ... elif not
\* first_page_text:": the OCR branch is taken when the probe found no text.
NoFirstPageText(text) == text = << >>

\* PDFProcessor.process_pdf_bytes from "if not processed" on.
PdfProcessed(extracted) ==
    IF ~extracted[2]
    THEN ProcessedFileSchema(extracted[2], Absent, Given(FailedToExtract), Absent)
    ELSE ProcessedFileSchema(extracted[2], Absent, Absent, Given(extracted[1]))

\* ------------------------------------------------------------- dispatcher

\* Mutant of PROCESSOR_BY_CONTENT_TYPES: one more type is registered.
ProcessorsWithJson == {PDF, DOCX, TXT, "application/json"}

\* _FileContentExtractor.__init__: the keys of the processor table.
PROCESSOR_BY_CONTENT_TYPES == {PDF, DOCX, TXT}

\* Mutant of ProcessingFailed: the status is left at its default.
ProcessingFailedDefaultStatus ==
    ProcessedFileSchema(FALSE, Absent, Given(UnexpectedError), Absent).val

\* _process_file_bytes, "except Exception": whatever the processor (or
\* seek) raised becomes this result.
ProcessingFailed == ProcessedFileSchema(FALSE, Given(500), Given(UnexpectedError), Absent).val

\* What _process_file_bytes returns for what the processor returned or raised.
ProcessedFile(proc) == IF proc.ok THEN proc.val ELSE ProcessingFailed

\* extract_file_content, "except (KeyError, Exception)": a response that
\* failed to build is built again from str(e), outside any try.
Caught(r, request) ==
    IF r.ok THEN r
    ELSE _build_response(FALSE, r.exc, request.filename, request.file_bytes,
                         request.content_type, 500)

\* extract_file_content after "result = await self._process_file_bytes(...)".
Respond(processed_file_, request) ==
    Caught(_build_response(processed_file_.processed,
                           IF ~processed_file_.processed
                           THEN processed_file_.reason ELSE processed_file_.text,
                           request.filename, request.file_bytes,
                           request.content_type, processed_file_.http_status),
           request)

\* extract_file_content, a precondition failed.
Rejected(http_status, reason, request) ==
    Caught(_build_response(FALSE, reason, request.filename, request.file_bytes,
                           request.content_type, http_status),
           request)

\* ------------------------------------------------------------------ state

VARIABLES
    pc,               \* where the request is: "idle", or the await it is suspended at
    req,              \* the arguments of the current (or last) extract_file_content call
    pos,              \* the position of the io.BytesIO passed as file_bytes
    invoked,          \* the format processors invoked for the current request
    first_page_text,  \* << >>, or <<what the probe returned or raised>>
    ocr_calls,        \* how often the current request called the OCR service
    ocr_answer,       \* << >>, or <<what the OCR service answered>>
    proc_result,      \* << >>, or <<what the format processor returned or raised>>
    processed_file,   \* << >>, or <<the ProcessedFileSchema _process_file_bytes returned>>
    result,           \* << >>, or <<what extract_file_content returned or raised>>
    previous,         \* << >>, or <<the first of two calls with the same arguments>>
    running,          \* the request whose coroutine the event loop is running
    parked,           \* what the coroutines of the other requests stand at
    interleaved       \* the requests that had a step of another one run between their own

\* What belongs to one request: its arguments, its stream, the position
\* and locals of its coroutine, and what it has returned.
locals == <<pc, req, pos, invoked, first_page_text, ocr_calls, ocr_answer,
            proc_result, processed_file, result>>

vars == <<locals, previous, running, parked, interleaved>>

Tasks == 1..MaxTasks

EmptyFile == [bytes |-> << >>, pdf |-> Unreadable, docx |-> Unreadable]

\* A request that has not been made yet.
Unborn ==
    [pc |-> "idle",
     req |-> [filename |-> None, file_bytes |-> FileBytes("bytes", EmptyFile),
              content_type |-> None],
     pos |-> 0, invoked |-> {}, first_page_text |-> << >>, ocr_calls |-> 0,
     ocr_answer |-> << >>, proc_result |-> << >>, processed_file |-> << >>,
     result |-> << >>]

Init ==
    /\ pc = "idle"
    /\ req = [filename |-> None, file_bytes |-> FileBytes("bytes", EmptyFile),
              content_type |-> None]
    /\ pos = 0
    /\ invoked = {}
    /\ first_page_text = << >>
    /\ ocr_calls = 0
    /\ ocr_answer = << >>
    /\ proc_result = << >>
    /\ processed_file = << >>
    /\ result = << >>
    /\ previous = << >>
    /\ running = 1
    /\ parked = [t \in Tasks |-> Unborn]
    /\ interleaved = {}

\* The request ends before any processor ran.
EndRejected(http_status, reason, request) ==
    /\ pc' = "idle"
    /\ proc_result' = << >>
    /\ processed_file' = << >>
    /\ result' = <<Rejected(http_status, reason, request)>>

\* The request ends with what _process_file_bytes made of what the
\* processor (or seek) returned or raised.
EndProcessed(proc, request) ==
    /\ pc' = "idle"
    /\ proc_result' = (IF invoked' = {} THEN << >> ELSE <<proc>>)
    /\ processed_file' = <<ProcessedFile(proc)>>
    /\ result' = <<Respond(ProcessedFile(proc), request)>>

Suspend(at) ==
    /\ pc' = at
    /\ proc_result' = << >>
    /\ processed_file' = << >>
    /\ result' = << >>

\* Mutant of seek: the stream stays where it stands.
seek_nowhere(position, offset) == position

\* io.BytesIO.seek(offset): the stream's new position.
seek(position, offset) == offset

\* extract_file_content is called and runs to its first suspension: the
\* preconditions, then _process_file_bytes: seek(0) (which bytes do not
\* have), the processor lookup and the processor up to its
\* asyncio.to_thread.  The DOCX processor has no suspension and runs to its
\* end; the zip reader leaves the stream at a position of its own.
Call(filename, file_bytes, content_type, p0) ==
    LET request == [filename |-> filename, file_bytes |-> file_bytes,
                    content_type |-> content_type]
    IN  /\ pc = "idle"
        /\ req' = request
        /\ first_page_text' = << >>
        /\ ocr_calls' = 0
        /\ ocr_answer' = << >>
        /\ IF ~Truthy(file_bytes)
           THEN /\ invoked' = {}
                /\ pos' = p0
                /\ EndRejected(500, MissedFileBytes, request)
           ELSE IF content_type \notin PROCESSOR_BY_CONTENT_TYPES
           THEN /\ invoked' = {}
                /\ pos' = p0
                /\ EndRejected(400, UnsupportedFileType, request)
           ELSE IF file_bytes.form # "stream"
           THEN /\ invoked' = {}
                /\ pos' = p0
                /\ EndProcessed(Raise("'bytes' object has no attribute 'seek'"), request)
           ELSE IF content_type = TXT
           THEN /\ invoked' = {"process_txt_bytes"}
                /\ pos' = seek(p0, 0)
                /\ Suspend("decode")
           ELSE IF content_type = PDF
           THEN /\ invoked' = {"process_pdf_bytes"}
                /\ pos' = seek(p0, 0)
                /\ Suspend("probe")
           ELSE /\ invoked' = {"process_docx_bytes"}
                /\ \E p \in {0, Len(file_bytes.file.bytes)} : pos' = p
                /\ EndProcessed(process_docx_bytes(file_bytes), request)

\* asyncio.to_thread(_decode) completes and process_txt_bytes runs to its end.
DecodeReturns ==
    /\ pc = "decode"
    /\ UNCHANGED <<req, pos, invoked, first_page_text, ocr_calls, ocr_answer>>
    /\ EndProcessed(process_txt_bytes(req.file_bytes), req)

\* asyncio.to_thread(extract_first_page_text_from_pdf_bytes) completes.  A
\* probe that raised ends the processor; a page-1 text runs the native
\* extraction to its end (read() leaves the stream at its end); no text
\* calls the OCR service.
ProbeReturns ==
    LET probe == extract_first_page_text_from_pdf_bytes(req.file_bytes)
    IN  /\ pc = "probe"
        /\ UNCHANGED <<req, invoked, ocr_answer>>
        /\ first_page_text' = <<probe>>
        /\ IF ~probe.ok
           THEN /\ EndProcessed(probe, req)
                /\ UNCHANGED <<pos, ocr_calls>>
           ELSE IF ~NoFirstPageText(probe.val)
           THEN /\ EndProcessed(PdfProcessed(
                        _use_base_pdf_text_extraction(req.file_bytes, pos)), req)
                /\ pos' = Len(req.file_bytes.file.bytes)
                /\ UNCHANGED ocr_calls
           ELSE /\ Suspend("ocr")
                /\ ocr_calls' = ocr_calls + 1
                /\ pos' = 0

\* The OCR service answers (or its client raises) and process_pdf_bytes
\* runs to its end.  The client has read the stream to its end.
OcrReturns(answer) ==
    /\ pc = "ocr"
    /\ UNCHANGED <<req, invoked, first_page_text, ocr_calls>>
    /\ ocr_answer' = <<answer>>
    /\ pos' = Len(req.file_bytes.file.bytes)
    /\ EndProcessed(PdfProcessed(_use_ocr_text_extraction(req.file_bytes, answer)), req)

\* The caller's choice of arguments; a stream may stand at any position.
\* An extractor serves one request: the router builds one per request.
Request ==
    /\ pc = "idle"
    /\ Len(result) = 0
    /\ \E filename \in Filenames, form \in Forms, file \in Files,
          content_type \in ContentTypes :
          \E p0 \in 0..Len(file.bytes) :
              Call(filename, FileBytes(form, file), content_type,
                   IF form = "stream" THEN p0 ELSE 0)

\* The OCR service's choice of answer.
OcrAnswer ==
    /\ pc = "ocr"
    /\ Len(previous) = 0
    /\ \E answer \in OcrAnswers : OcrReturns(answer)

\* One request, from the call to the response.
Next ==
    \/ Request /\ UNCHANGED <<previous, running, parked, interleaved>>
    \/ DecodeReturns /\ UNCHANGED <<previous, running, parked, interleaved>>
    \/ ProbeReturns /\ UNCHANGED <<previous, running, parked, interleaved>>
    \/ OcrAnswer /\ UNCHANGED <<previous, running, parked, interleaved>>

Spec == Init /\ [][Next]_vars

\* The caller, holding the outcome of a call, calls extract_file_content
\* again with the same filename, the same file_bytes object (a stream
\* stands where the first call left it) and the same content type.
CallAgain ==
    /\ pc = "idle"
    /\ Len(result) = 1
    /\ Len(previous) = 0
    /\ previous' = <<[result |-> result[1], ocr_answer |-> ocr_answer, pos |-> pos]>>
    /\ Call(req.filename, req.file_bytes, req.content_type, pos)

\* The OCR service answers the second call as it answered the first.
OcrAnswerAgain ==
    /\ pc = "ocr"
    /\ Len(previous) = 1
    /\ \E answer \in OcrAnswers :
           /\ Len(previous[1].ocr_answer) = 1 => answer = previous[1].ocr_answer[1]
           /\ OcrReturns(answer)

\* Two calls with the same arguments, one after the other.
NextTwice ==
    \/ Next
    \/ CallAgain /\ UNCHANGED <<running, parked, interleaved>>
    \/ OcrAnswerAgain /\ UNCHANGED <<previous, running, parked, interleaved>>

SpecTwice == Init /\ [][NextTwice]_vars

\* What the running request stands at.
Standing ==
    [pc |-> pc, req |-> req, pos |-> pos, invoked |-> invoked,
     first_page_text |-> first_page_text, ocr_calls |-> ocr_calls,
     ocr_answer |-> ocr_answer, proc_result |-> proc_result,
     processed_file |-> processed_file, result |-> result]

\* What a request stands at, running or not.
TaskLocals(t) == IF t = running THEN Standing ELSE parked[t]

\* Mutant of Resumed: the requests read one and the same stream.
ResumedOnSharedStream(mine, theirs) == [mine EXCEPT !.pos = theirs.pos]

\* What a coroutine finds when the event loop resumes it: its own stream
\* (the router wraps each upload in a BytesIO of its own), its own
\* extractor (built per request) and its own locals, whatever the
\* coroutine that ran before it did to theirs.
Resumed(mine, theirs) == mine

\* The event loop leaves the running coroutine where it stands (at an
\* await, or before its call, or after its return) and runs another one.
Switch(t) ==
    /\ t # running
    /\ running' = t
    /\ parked' = [parked EXCEPT ![running] = Standing, ![t] = Unborn]
    /\ LET mine == Resumed(parked[t], Standing)
       IN  /\ pc' = mine.pc
           /\ req' = mine.req
           /\ pos' = mine.pos
           /\ invoked' = mine.invoked
           /\ first_page_text' = mine.first_page_text
           /\ ocr_calls' = mine.ocr_calls
           /\ ocr_answer' = mine.ocr_answer
           /\ proc_result' = mine.proc_result
           /\ processed_file' = mine.processed_file
           /\ result' = mine.result
    /\ UNCHANGED <<previous, interleaved>>

\* The requests that are suspended at an await while another one runs.
Suspended == {t \in Tasks \ {running} : parked[t].pc # "idle"}

\* The running request takes a step: it has run between the steps of
\* every suspended request, and they will run between its own.
Interleave ==
    /\ interleaved' = (IF Suspended = {} THEN interleaved
                       ELSE interleaved \cup Suspended \cup {running})
    /\ UNCHANGED <<previous, running, parked>>

\* One upload for each path through the extractor.
TextFile == [bytes |-> <<97>>, pdf |-> Unreadable, docx |-> Unreadable]

BrokenTextFile == [bytes |-> <<160>>, pdf |-> Unreadable, docx |-> Unreadable]

NativePdfFile ==
    [bytes |-> ContainerBytes, pdf |-> Readable(<<GoodPage(<<97>>)>>), docx |-> Unreadable]

ScannedPdfFile ==
    [bytes |-> ContainerBytes, pdf |-> Readable(<<GoodPage(<< >>)>>), docx |-> Unreadable]

DocxFile ==
    [bytes |-> ContainerBytes, pdf |-> Unreadable, docx |-> Readable(<<<<97>>>>)]

Uploads ==
    {[file_bytes |-> FileBytes("stream", TextFile), content_type |-> TXT],
     [file_bytes |-> FileBytes("stream", BrokenTextFile), content_type |-> TXT],
     [file_bytes |-> FileBytes("stream", NativePdfFile), content_type |-> PDF],
     [file_bytes |-> FileBytes("stream", ScannedPdfFile), content_type |-> PDF],
     [file_bytes |-> FileBytes("bytes", NativePdfFile), content_type |-> PDF],
     [file_bytes |-> FileBytes("stream", DocxFile), content_type |-> DOCX],
     [file_bytes |-> FileBytes("stream", TextFile), content_type |-> DOCX],
     [file_bytes |-> FileBytes("stream", TextFile), content_type |-> "application/json"]}

\* What the OCR service may answer one of these: its client raises, no
\* line, a blank line, a line of text.
UploadOcrAnswers ==
    {Unreadable, Readable(<< >>), Readable(<<<<32>>>>), Readable(<<<<97>>>>)}

\* A request arrives: the router reads the upload, wraps it in a BytesIO,
\* builds an extractor and calls it.
Arrival ==
    /\ pc = "idle"
    /\ Len(result) = 0
    /\ \E upload \in Uploads :
           Call("upload.bin", upload.file_bytes, upload.content_type, 0)

\* The OCR service answers the running request.
UploadOcrAnswer ==
    /\ pc = "ocr"
    /\ \E answer \in UploadOcrAnswers : OcrReturns(answer)

\* Several requests in flight, their steps interleaved at the awaits.
NextConcurrent ==
    \/ Arrival /\ Interleave
    \/ DecodeReturns /\ Interleave
    \/ ProbeReturns /\ Interleave
    \/ UploadOcrAnswer /\ Interleave
    \/ \E t \in Tasks : Switch(t)

SpecConcurrent == Init /\ [][NextConcurrent]_vars

\* extract_file_content run from its call to its return with nothing in
\* between, as a function of its arguments and of the OCR service's
\* answer (<< >> when the service was not called).
RunAlone(request, ocr) ==
    LET file_bytes == request.file_bytes
        probe == extract_first_page_text_from_pdf_bytes(file_bytes)
    IN  IF ~Truthy(file_bytes)
        THEN Rejected(500, MissedFileBytes, request)
        ELSE IF request.content_type \notin PROCESSOR_BY_CONTENT_TYPES
        THEN Rejected(400, UnsupportedFileType, request)
        ELSE IF file_bytes.form # "stream"
        THEN Respond(ProcessedFile(Raise("'bytes' object has no attribute 'seek'")), request)
        ELSE IF request.content_type = TXT
        THEN Respond(ProcessedFile(process_txt_bytes(file_bytes)), request)
        ELSE IF request.content_type = DOCX
        THEN Respond(ProcessedFile(process_docx_bytes(file_bytes)), request)
        ELSE IF ~probe.ok
        THEN Respond(ProcessedFile(probe), request)
        ELSE IF ~NoFirstPageText(probe.val)
        THEN Respond(ProcessedFile(PdfProcessed(
                 _use_base_pdf_text_extraction(file_bytes, seek(0, 0)))), request)
        ELSE IF Len(ocr) = 0
        THEN Raise("the OCR service was not called")
        ELSE Respond(ProcessedFile(PdfProcessed(
                 _use_ocr_text_extraction(file_bytes, ocr[1]))), request)

\* ----------------------------------------------------------------- claims

\* The request has ended: extract_file_content returned or raised.
Done == pc = "idle" /\ Len(result) = 1

\* extract_file_content returned an outcome.
Returned == Done /\ result[1].ok

outcome == result[1].val

\* The arguments are strings, as the interface declares them.
Typed == req.filename # None /\ req.content_type # None

\* The JSON body the router builds from the outcome.
response ==
    builder_file_content_extraction_response(outcome.success, outcome.reason,
        outcome.file.filename, outcome.file.content_type, outcome.file.content)

\* C1: for a supported content type and any bytes, a returned outcome has
\* non-empty content and the empty reason when success is true, and a
\* non-empty reason and the empty content when success is false; the
\* router's response body keeps the two apart in the same way.
C1_ExactlyOneOfContentAndReason ==
    (Returned /\ req.content_type \in {PDF, DOCX, TXT}) =>
        /\ outcome.success =>
               outcome.file.content # << >> /\ outcome.reason = ""
        /\ ~outcome.success =>
               outcome.reason # "" /\ outcome.file.content = << >>
        /\ response.success => response.reason = ""
        /\ \A i \in 1..Len(response.file) :
               ~response.success => response.file[i].content = << >>

\* C1 witness: a PDF request whose OCR text became the content of a
\* successful outcome with the empty reason.
C1_Witness ==
    /\ Returned
    /\ req.content_type = PDF
    /\ ocr_calls = 1
    /\ outcome.success
    /\ outcome.file.content # << >>
    /\ outcome.reason = ""

\* C2: every call returns an outcome; no call ends by raising, whatever
\* the filename and content type (None included).
C2_NeverRaises == Done => result[1].ok

\* C3: ProcessedFileSchema cannot be constructed with processed=true and
\* no text or with processed=false and no reason, so every instance a
\* processor or _process_file_bytes returned has text if processed and a
\* reason if not; a processor that tries the first (the OCR branch with an
\* empty OCR text) ends by raising.
C3_ProcessedResultInvariant ==
    /\ \A processed \in BOOLEAN :
       \A reason \in {Absent, Given(""), Given(FailedToExtract)} :
       \A text \in {Absent, Given(<< >>), Given(<<97>>)} :
           LET made == ProcessedFileSchema(processed, Absent, reason, text)
               text_missing == text \in {Absent, Given(<< >>)}
               reason_missing == reason \in {Absent, Given("")}
           IN  /\ (processed /\ text_missing) => ~made.ok
               /\ (~processed /\ reason_missing) => ~made.ok
               /\ made.ok => /\ made.val.processed => made.val.text # << >>
                             /\ ~made.val.processed => made.val.reason # ""
    /\ \A i \in 1..Len(processed_file) :
           /\ processed_file[i].processed => processed_file[i].text # << >>
           /\ ~processed_file[i].processed => processed_file[i].reason # ""
    /\ \A i \in 1..Len(proc_result) :
           proc_result[i].ok =>
               /\ proc_result[i].val.processed => proc_result[i].val.text # << >>
               /\ ~proc_result[i].val.processed => proc_result[i].val.reason # ""
    /\ (Done /\ Len(ocr_answer) = 1
             /\ extract_text_from_pdf_bytes(req.file_bytes, ocr_answer[1]) = << >>) =>
           ~proc_result[1].ok

\* C3 witness: the PDF processor built ProcessedFileSchema(processed=True,
\* text="") and the construction raised.
C3_Witness ==
    /\ Done
    /\ Len(proc_result) = 1
    /\ ~proc_result[1].ok
    /\ proc_result[1].exc = "text field is required when processing is successful"

\* Empty content reached the dispatcher, as raw bytes or as a stream.
EmptyContent == req.file_bytes.file.bytes = << >>

\* C4: with empty content, in either form and for any declared content
\* type, the outcome is success=false, 500, the missing-bytes reason (in
\* the code's wording), and no processor was invoked.
C4_EmptyBytesRejected ==
    (Done /\ Typed /\ EmptyContent) =>
        /\ result[1].ok
        /\ ~outcome.success
        /\ outcome.http_status = 500
        /\ outcome.reason = MissedFileBytes
        /\ invoked = {}

\* Non-empty content and a declared content type outside the three
\* registered ones.
UnregisteredType ==
    /\ Done
    /\ Typed
    /\ ~EmptyContent
    /\ req.content_type \notin {PDF, DOCX, TXT}

\* C5 as stated: such a request is answered success=false, 400, reason
\* "unsupported file type", with no processor and no OCR call.
C5_UnsupportedAsStated ==
    UnregisteredType =>
        /\ result[1].ok
        /\ ~outcome.success
        /\ outcome.http_status = 400
        /\ outcome.reason = "unsupported file type"
        /\ invoked = {}
        /\ ocr_calls = 0

\* C5 amended: such a request is answered success=false, 400, reason
\* "Unsupported file type", with no processor and no OCR call.
C5_UnsupportedRejected ==
    UnregisteredType =>
        /\ result[1].ok
        /\ ~outcome.success
        /\ outcome.http_status = 400
        /\ outcome.reason = "Unsupported file type"
        /\ outcome.file.content = << >>
        /\ invoked = {}
        /\ ocr_calls = 0

\* C5 witness: a stream with content and type application/json was rejected.
C5_Witness ==
    /\ UnregisteredType
    /\ req.file_bytes.form = "stream"
    /\ req.content_type = "application/json"
    /\ result[1].ok
    /\ outcome.http_status = 400

\* The probe completed and found text on page 1.
ProbeFoundText ==
    /\ Len(first_page_text) = 1
    /\ first_page_text[1].ok
    /\ first_page_text[1].val # << >>

\* The probe completed and found no text.
ProbeFoundNothing == first_page_text = <<Return(<< >>)>>

\* C6: the OCR service is called only after a probe that found no text;
\* when the probe found text the request never calls it, gets no answer
\* from it, and ends with the result of the native extraction, failed or
\* not.
C6_OcrOnlyAfterEmptyProbe ==
    /\ (ocr_calls > 0 \/ pc = "ocr" \/ Len(ocr_answer) > 0) =>
           req.content_type = PDF /\ ProbeFoundNothing
    /\ ProbeFoundText =>
           /\ ocr_calls = 0
           /\ pc # "ocr"
           /\ Len(ocr_answer) = 0
           /\ Done
           /\ proc_result[1].ok
           /\ proc_result[1].val.processed =>
                  Strip(proc_result[1].val.text) # << >>
    /\ ocr_calls <= 1

\* C6 witness: page 1 had text, the native extraction failed on a later
\* page, and the OCR service was not called.
C6_Witness ==
    /\ Done
    /\ ProbeFoundText
    /\ ~processed_file[1].processed
    /\ processed_file[1].reason = FailedToExtract
    /\ ocr_calls = 0

\* The text the OCR answer's lines join to.
RECURSIVE Unwords(_)
Unwords(lines) ==
    IF Len(lines) = 0 THEN << >>
    ELSE IF Len(lines) = 1 THEN lines[1]
    ELSE Unwords(SubSeq(lines, 1, Len(lines) - 1)) \o <<32>> \o lines[Len(lines)]

\* A PDF request whose OCR call completed with an answer.
OcrAnswered ==
    /\ Done
    /\ Typed
    /\ req.content_type = PDF
    /\ ProbeFoundNothing
    /\ Len(ocr_answer) = 1
    /\ ocr_answer[1].ok

\* C7: when the OCR call completes with no lines (an empty joined text)
\* or with a single space, the PDF processor returns processed=false with
\* the extraction-failure reason and the outcome is success=false with
\* that reason.
C7_BlankOcrIsExtractionFailure ==
    (OcrAnswered /\ Unwords(ocr_answer[1].units) \in {<< >>, <<32>>}) =>
        /\ proc_result[1].ok
        /\ ~proc_result[1].val.processed
        /\ proc_result[1].val.reason = FailedToExtract
        /\ result[1].ok
        /\ ~outcome.success
        /\ outcome.reason = FailedToExtract

\* C8: whatever is raised while the PDF processor runs (the file cannot be
\* opened, a page cannot be read, the OCR client fails), the processor
\* returns processed=false with the extraction-failure reason and raises
\* nothing.
C8_PdfErrorsConverted ==
    (Done /\ "process_pdf_bytes" \in invoked) =>
        /\ proc_result[1].ok
        /\ ~proc_result[1].val.processed =>
               proc_result[1].val.reason = FailedToExtract
        /\ (\/ ~req.file_bytes.file.pdf.ok
            \/ \E i \in 1..Len(req.file_bytes.file.pdf.units) :
                   ~req.file_bytes.file.pdf.units[i].ok
            \/ \E i \in 1..Len(ocr_answer) : ~ocr_answer[i].ok) =>
               ~proc_result[1].val.processed

\* Some line has a character that is not white space.
NonBlank(lines) ==
    \E i \in 1..Len(lines) : \E j \in 1..Len(lines[i]) : ~IsSpace(lines[i][j])

\* C9: when the probe found nothing and the OCR service answers with
\* lines that are not all blank, the outcome is success=true and the
\* content is the lines, in order, joined with single spaces.
C9_OcrLinesJoined ==
    (OcrAnswered /\ NonBlank(ocr_answer[1].units)) =>
        /\ result[1].ok
        /\ outcome.success
        /\ outcome.file.content = Unwords(ocr_answer[1].units)
        /\ outcome.reason = ""

\* C9 witness: the lines "a", "a" became the content "a a".
C9_Witness ==
    /\ OcrAnswered
    /\ ocr_answer[1].units = <<<<97>>, <<97>>>>
    /\ outcome.success
    /\ outcome.file.content = <<97, 32, 97>>

\* C10: non-empty bytes that are valid UTF-8 and decode to text that is not
\* all white space, sent as text/plain in either form, are answered
\* success=true with exactly the decoded text as content.
C10_PlainTextReturned ==
    (/\ Done
     /\ Typed
     /\ req.content_type = TXT
     /\ ~EmptyContent
     /\ Utf8Decode(req.file_bytes.file.bytes).ok
     /\ Strip(Utf8Decode(req.file_bytes.file.bytes).val) # << >>) =>
        /\ result[1].ok
        /\ outcome.success
        /\ outcome.file.content = Utf8Decode(req.file_bytes.file.bytes).val

\* The TXT processor ran to its end on the request's bytes.
TxtProcessed == Done /\ Typed /\ "process_txt_bytes" \in invoked

Undecodable == ~Utf8Decode(req.file_bytes.file.bytes).ok

\* The bytes decode to the empty text or to white space only.
BlankText ==
    /\ Utf8Decode(req.file_bytes.file.bytes).ok
    /\ \A i \in 1..Len(Utf8Decode(req.file_bytes.file.bytes).val) :
           IsSpace(Utf8Decode(req.file_bytes.file.bytes).val[i])

\* C11 as stated: the TXT processor answers undecodable bytes with
\* processed=false, reason "decode error", and blank text with
\* processed=false, reason "empty content", and calls no OCR.
C11_TxtFailuresAsStated ==
    TxtProcessed =>
        /\ proc_result[1].ok
        /\ Undecodable =>
               /\ ~proc_result[1].val.processed
               /\ proc_result[1].val.reason = "decode error"
        /\ BlankText =>
               /\ ~proc_result[1].val.processed
               /\ proc_result[1].val.reason = "empty content"
        /\ ocr_calls = 0

\* C11 amended: the TXT processor answers undecodable bytes with
\* processed=false, reason "Failed to decode the TXT file.", and blank text
\* with processed=false, reason "Could not extract text or file is empty.";
\* it succeeds on neither and the request calls no OCR.
C11_TxtFailuresDistinct ==
    TxtProcessed =>
        /\ proc_result[1].ok
        /\ Undecodable =>
               /\ ~proc_result[1].val.processed
               /\ proc_result[1].val.reason = "Failed to decode the TXT file."
               /\ ~outcome.success
        /\ BlankText =>
               /\ ~proc_result[1].val.processed
               /\ proc_result[1].val.reason = "Could not extract text or file is empty."
               /\ ~outcome.success
        /\ ocr_calls = 0
        /\ Len(ocr_answer) = 0

\* C11 witness: a lone continuation byte was reported as a decode failure.
C11_Witness ==
    /\ TxtProcessed
    /\ req.file_bytes.file.bytes = <<160>>
    /\ ~proc_result[1].val.processed
    /\ proc_result[1].val.reason = FailedToDecode

\* python-docx opened the request's file and the DOCX processor ran.
DocxParsed ==
    /\ Done
    /\ Typed
    /\ "process_docx_bytes" \in invoked
    /\ req.file_bytes.file.docx.ok

\* The paragraphs of the request's document.
paragraphs == req.file_bytes.file.docx.units

\* C12 as stated: a parsed document whose joined paragraphs are blank is
\* answered success=false with reason "empty content"; any other is
\* answered success=true with the paragraphs joined by single spaces.
C12_DocxAsStated ==
    DocxParsed =>
        /\ result[1].ok
        /\ ~NonBlank(paragraphs) =>
               ~outcome.success /\ outcome.reason = "empty content"
        /\ NonBlank(paragraphs) =>
               outcome.success /\ outcome.file.content = Unwords(paragraphs)

\* C12 amended: a parsed document whose joined paragraphs are blank is
\* answered success=false with reason "Failed to extract text from the
\* file"; any other is answered success=true with the paragraphs, in
\* order, joined by single spaces.
C12_DocxParagraphsJoined ==
    DocxParsed =>
        /\ result[1].ok
        /\ ~NonBlank(paragraphs) =>
               /\ ~outcome.success
               /\ outcome.reason = "Failed to extract text from the file"
               /\ outcome.file.content = << >>
        /\ NonBlank(paragraphs) =>
               /\ outcome.success
               /\ outcome.file.content = Unwords(paragraphs)
               /\ outcome.reason = ""

\* C12 witness: the paragraphs "a", "" became the content "a ".
C12_Witness ==
    /\ DocxParsed
    /\ paragraphs = <<<<97>>, << >>>>
    /\ outcome.success
    /\ outcome.file.content = <<97, 32>>

\* C13: when python-docx cannot open the file, the DOCX processor itself
\* returns processed=false (with its parse-failure reason) and raises
\* nothing to _process_file_bytes.
C13_DocxParseErrorConverted ==
    (Done /\ Typed /\ "process_docx_bytes" \in invoked /\ ~req.file_bytes.file.docx.ok) =>
        /\ proc_result[1].ok
        /\ ~proc_result[1].val.processed

\* After the preconditions passed, something was raised: by seek (no
\* processor ran) or out of the format processor.
RaisedInDispatch ==
    /\ Done
    /\ Typed
    /\ Len(processed_file) = 1
    /\ \/ invoked = {}
       \/ ~proc_result[1].ok

\* The message of what was raised.
RaisedMessage ==
    IF invoked = {} THEN "'bytes' object has no attribute 'seek'" ELSE proc_result[1].exc

\* C14 as stated: what was raised becomes an outcome with success=false,
\* 500 and the raised error's message as reason.
C14_MessageAsReason ==
    RaisedInDispatch =>
        /\ result[1].ok
        /\ ~outcome.success
        /\ outcome.http_status = 500
        /\ outcome.reason = RaisedMessage

\* C14 amended: what was raised becomes an outcome with success=false, 500
\* and the fixed reason "Unexpected error during file processing".
C14_FixedReason ==
    RaisedInDispatch =>
        /\ result[1].ok
        /\ ~outcome.success
        /\ outcome.http_status = 500
        /\ outcome.reason = "Unexpected error during file processing"
        /\ outcome.file.content = << >>

\* C14 witness: a DOCX package that could not be opened.
C14_Witness ==
    /\ RaisedInDispatch
    /\ req.content_type = DOCX
    /\ ~proc_result[1].ok
    /\ outcome.http_status = 500

\* C17: success=false goes with a status of 400 or more and success=true
\* with a 2xx status, in every outcome.
C17_StatusAgreesWithSuccess ==
    Returned =>
        /\ outcome.success => outcome.http_status \in 200..299
        /\ ~outcome.success => outcome.http_status >= 400

\* Both of two calls with the same arguments have ended.
DoneTwice == Done /\ Len(previous) = 1

\* C15: the second of two calls with the same filename, the same bytes or
\* stream object and the same content type, with the OCR service answering
\* the same, returns (or raises) what the first did, wherever the first
\* call left the stream.
C15_SecondCallSameOutcome ==
    DoneTwice =>
        /\ result[1] = previous[1].result
        /\ ocr_answer = previous[1].ocr_answer
        /\ ocr_calls <= 1

\* C15 witness: the first call read a PDF stream to its end, and the
\* second call returned the same text from it.
C15_Witness ==
    /\ DoneTwice
    /\ Typed
    /\ req.content_type = PDF
    /\ previous[1].pos = Len(req.file_bytes.file.bytes)
    /\ previous[1].pos > 0
    /\ outcome.success
    /\ result[1] = previous[1].result

\* C16: with several requests in flight and their steps interleaved in any
\* order, every request that has ended has the outcome it has when run
\* alone, and no request runs more than one processor or calls the OCR
\* service more than once.
C16_InterleavingChangesNothing ==
    \A t \in Tasks :
        /\ TaskLocals(t).ocr_calls <= 1
        /\ Cardinality(TaskLocals(t).invoked) <= 1
        /\ (TaskLocals(t).pc = "idle" /\ Len(TaskLocals(t).result) = 1) =>
               TaskLocals(t).result[1] =
                   RunAlone(TaskLocals(t).req, TaskLocals(t).ocr_answer)

\* C16 witness: two requests whose steps were interleaved have ended, a
\* scanned PDF answered from the OCR service and a native PDF read from
\* its stream.
C16_Witness ==
    /\ interleaved = {1, 2}
    /\ \A t \in {1, 2} :
           /\ TaskLocals(t).pc = "idle"
           /\ Len(TaskLocals(t).result) = 1
           /\ TaskLocals(t).result[1].ok
           /\ TaskLocals(t).result[1].val.success
    /\ TaskLocals(1).ocr_calls = 1
    /\ TaskLocals(2).req.file_bytes.file = NativePdfFile

====
